---- MODULE Spec2Model ----
(***************************************************************************)
(* PING frame codec of h2 (src/frame/ping.rs): Ping::new, Ping::pong,      *)
(* Ping::user_payload_id, Ping::load and Ping::encode, exercised by a      *)
(* caller that builds, encodes, receives, decodes and classifies frames.   *)
(***************************************************************************)
EXTENDS Integers, Sequences, FiniteSets, TLC

VARIABLES pc, ping, old, dst, head, bytes, wire, res, uid

vars == <<pc, ping, old, dst, head, bytes, wire, res, uid>>

(* ------------------------------ bounds -------------------------------- *)

\* largest remaining capacity of an output buffer handed to encode
MaxRemaining == 19

\* longest raw payload slice handed to load
MaxLen == 9

\* largest stream identifier of an inbound header
MaxStreamId == 5

(* ----------------------------- constants ------------------------------ *)

ACK_FLAG == 1

PAYLOAD_LEN == 8

HEADER_LEN == 9

KIND_PING == 6

SHUTDOWN_PAYLOAD == <<11, 123, 162, 240, 139, 155, 254, 84>>

user_payload(id) == <<59, 124, 219, 122, 11, 135, 22, id>>

\* Rust index 0 is index 1 here
USER_PAYLOADS == <<user_payload(0), user_payload(1)>>

(* ------------------------------ helpers ------------------------------- *)

Take(s, n) == SubSeq(s, 1, n)

Min(a, b) == IF a < b THEN a ELSE b

RECURSIVE BitAnd(_, _)
BitAnd(a, b) ==
    IF a = 0 \/ b = 0 THEN 0
    ELSE (a % 2) * (b % 2) + 2 * BitAnd(a \div 2, b \div 2)

RECURSIVE Pow(_, _)
Pow(b, e) == IF e = 0 THEN 1 ELSE b * Pow(b, e - 1)

\* big-endian encoding of v in n bytes
UintBE(v, n) == [i \in 1..n |-> (v \div Pow(256, n - i)) % 256]

RECURSIVE FromBE(_)
FromBE(s) ==
    IF Len(s) = 0 THEN 0
    ELSE FromBE(Take(s, Len(s) - 1)) * 256 + s[Len(s)]

(* --------------------------- frame header ----------------------------- *)

HeadNew(kind, flag, stream_id) ==
    [kind |-> kind, flag |-> flag, stream_id |-> stream_id]

StreamIdZero == 0

StreamIdIsZero(id) == id = 0

\* BufMut: a put of more bytes than remain panics and writes nothing of it;
\* after a panic nothing further of the call runs
Put(b, bs) ==
    IF ~b.ok THEN b
    ELSE IF Len(b.data) + Len(bs) <= b.cap
         THEN [b EXCEPT !.data = @ \o bs]
         ELSE [b EXCEPT !.ok = FALSE]

\* 3-byte length, kind, flag, 4-byte stream identifier, one put each
HeadEncode(h, payload_len, b) ==
    Put(Put(Put(Put(b, UintBE(payload_len, 3)),
                <<h.kind>>),
            <<h.flag>>),
        UintBE(h.stream_id, 4))

\* the reserved top bit of the stream identifier is cleared
StreamIdParse(s) == FromBE(<<s[1] % 128, s[2], s[3], s[4]>>)

HeadParse(header) ==
    HeadNew(header[4], header[5], StreamIdParse(SubSeq(header, 6, 9)))

DeclaredLen(header) == FromBE(SubSeq(header, 1, 3))

(* ------------------------------- Ping --------------------------------- *)

NoPing == [ack |-> FALSE, payload |-> <<>>]

new(payload) == [ack |-> FALSE, payload |-> payload]

pong(payload) == [ack |-> TRUE, payload |-> payload]

None == [some |-> FALSE, val |-> 0]

Some(v) == [some |-> TRUE, val |-> v]

user_payload_id_FullCompare(self) ==
    IF self.payload = USER_PAYLOADS[1]
    THEN Some(self.payload[8])
    ELSE None

user_payload_id(self) ==
    IF SubSeq(self.payload, 1, 7) = SubSeq(USER_PAYLOADS[1], 1, 7)
    THEN Some(self.payload[8])
    ELSE None

Ok(p) == [ok |-> TRUE, err |-> "none", ping |-> p]

Err(e) == [ok |-> FALSE, err |-> e, ping |-> NoPing]

load_SizeFirst(h, bs) ==
    IF Len(bs) # 8 THEN Err("BadFrameSize")
    ELSE IF ~StreamIdIsZero(h.stream_id) THEN Err("InvalidStreamId")
    ELSE Ok([ack |-> BitAnd(h.flag, ACK_FLAG) # 0, payload |-> bs])

load_Truncating(h, bs) ==
    IF ~StreamIdIsZero(h.stream_id) THEN Err("InvalidStreamId")
    ELSE IF Len(bs) < 8 THEN Err("BadFrameSize")
    ELSE Ok([ack |-> BitAnd(h.flag, ACK_FLAG) # 0, payload |-> Take(bs, 8)])

load_NoMask(h, bs) ==
    IF ~StreamIdIsZero(h.stream_id) THEN Err("InvalidStreamId")
    ELSE IF Len(bs) # 8 THEN Err("BadFrameSize")
    ELSE Ok([ack |-> h.flag # 0, payload |-> bs])

load(h, bs) ==
    IF ~StreamIdIsZero(h.stream_id) THEN Err("InvalidStreamId")
    ELSE IF Len(bs) # 8 THEN Err("BadFrameSize")
    ELSE Ok([ack |-> BitAnd(h.flag, ACK_FLAG) # 0, payload |-> bs])

encode_NoAckFlag(self, b) ==
    LET sz == Len(self.payload)
        h  == HeadNew(KIND_PING, 0, StreamIdZero)
    IN  Put(HeadEncode(h, sz, b), self.payload)

encode_AckWithoutPayload(self, b) ==
    LET sz    == Len(self.payload)
        flags == IF self.ack THEN ACK_FLAG ELSE 0
        h     == HeadNew(KIND_PING, flags, StreamIdZero)
    IN  IF self.ack THEN HeadEncode(h, sz, b)
        ELSE Put(HeadEncode(h, sz, b), self.payload)

encode_Reserving(self, b) ==
    LET sz    == Len(self.payload)
        flags == IF self.ack THEN ACK_FLAG ELSE 0
        h     == HeadNew(KIND_PING, flags, StreamIdZero)
    IN  IF Len(b.data) + HEADER_LEN + sz > b.cap
        THEN [b EXCEPT !.ok = FALSE]
        ELSE Put(HeadEncode(h, sz, b), self.payload)

encode(self, b) ==
    LET sz    == Len(self.payload)
        flags == IF self.ack THEN ACK_FLAG ELSE 0
        h     == HeadNew(KIND_PING, flags, StreamIdZero)
    IN  Put(HeadEncode(h, sz, b), self.payload)

(* ------------------------------ inputs -------------------------------- *)

FlipBit(byte, k) ==
    IF (byte \div Pow(2, k)) % 2 = 1 THEN byte - Pow(2, k) ELSE byte + Pow(2, k)

\* user payload `last` with bit k of prefix byte i inverted
FlippedPayload(i, k, last) ==
    [j \in 1..8 |-> IF j = i THEN FlipBit(user_payload(last)[j], k)
                    ELSE user_payload(last)[j]]

CorePayloads ==
    { SHUTDOWN_PAYLOAD, USER_PAYLOADS[1], USER_PAYLOADS[2],
      user_payload(2), user_payload(255),
      <<0, 0, 0, 0, 0, 0, 0, 0>>,
      <<1, 2, 3, 4, 5, 6, 7, 8>>,
      <<255, 255, 255, 255, 255, 255, 255, 255>> }

Payloads ==
    CorePayloads \cup
    { FlippedPayload(i, k, last) : i \in 1..7, k \in 0..7, last \in {0, 1} }

LongBytes == user_payload(1) \o [i \in 1..MaxLen |-> 238]

RawInputs == CorePayloads \cup { Take(LongBytes, n) : n \in 0..MaxLen }

Flags == 0..255

StreamIds == 0..MaxStreamId

Prefills == { <<>>, <<170, 187>> }

NoBuf == [data |-> <<>>, cap |-> 0, ok |-> TRUE]

NoHead == HeadNew(KIND_PING, 0, 0)

NoRes == Err("none")

(* --------------------------- state machine ---------------------------- *)

Init ==
    /\ pc = "idle"
    /\ ping = NoPing
    /\ old = <<>>
    /\ dst = NoBuf
    /\ head = NoHead
    /\ bytes = <<>>
    /\ wire = FALSE
    /\ res = NoRes
    /\ uid = None

New ==
    /\ pc = "idle"
    /\ \E p \in Payloads : ping' = new(p)
    /\ pc' = "built"
    /\ UNCHANGED <<old, dst, head, bytes, wire, res, uid>>

Pong ==
    /\ pc = "idle"
    /\ \E p \in Payloads : ping' = pong(p)
    /\ pc' = "built"
    /\ UNCHANGED <<old, dst, head, bytes, wire, res, uid>>

\* the message at hand: the decoded one if there is one, else the built one
Subject == IF res.ok THEN res.ping ELSE ping

UserPayloadId ==
    /\ \/ pc = "built"
       \/ pc = "loaded" /\ res.ok
    /\ uid' = user_payload_id(Subject)
    /\ pc' = "classified"
    /\ UNCHANGED <<ping, old, dst, head, bytes, wire, res>>

\* encode into a buffer holding `pre` with r bytes of capacity remaining
Encode ==
    /\ pc = "built"
    /\ \E pre \in Prefills, r \in 0..MaxRemaining :
          /\ old' = pre
          /\ dst' = encode(ping, [data |-> pre, cap |-> Len(pre) + r, ok |-> TRUE])
    /\ pc' = "encoded"
    /\ UNCHANGED <<ping, head, bytes, wire, res, uid>>

\* bytes appended to the buffer by the last encode
Frame == SubSeq(dst.data, Len(old) + 1, Len(dst.data))

\* the frame is read back: header, then the declared payload length
Recv ==
    /\ pc = "encoded"
    /\ dst.ok
    /\ Len(Frame) >= HEADER_LEN
    /\ head' = HeadParse(Take(Frame, HEADER_LEN))
    /\ bytes' = SubSeq(Frame, HEADER_LEN + 1,
                       Min(HEADER_LEN + DeclaredLen(Take(Frame, HEADER_LEN)),
                           Len(Frame)))
    /\ wire' = TRUE
    /\ pc' = "received"
    /\ UNCHANGED <<ping, old, dst, res, uid>>

\* a peer's frame, already demultiplexed as PING by the dispatcher
PeerSend ==
    /\ pc = "idle"
    /\ \E f \in Flags, sid \in StreamIds, bs \in RawInputs :
          /\ head' = HeadNew(KIND_PING, f, sid)
          /\ bytes' = bs
    /\ wire' = FALSE
    /\ pc' = "received"
    /\ UNCHANGED <<ping, old, dst, res, uid>>

Load ==
    /\ pc = "received"
    /\ head.kind = KIND_PING
    /\ res' = load(head, bytes)
    /\ pc' = "loaded"
    /\ UNCHANGED <<ping, old, dst, head, bytes, wire, uid>>

Next ==
    \/ New
    \/ Pong
    \/ UserPayloadId
    \/ Encode
    \/ Recv
    \/ PeerSend
    \/ Load

Spec == Init /\ [][Next]_vars

(* ------------------------------ claims -------------------------------- *)

FRAME_LEN == HEADER_LEN + PAYLOAD_LEN

\* remaining capacity the buffer had when encode was called
Remaining == dst.cap - Len(old)

\* reserved 7-byte prefix of the user payloads, as written on the wire
UserPrefix == <<59, 124, 219, 122, 11, 135, 22>>

\* C1: a message built by new or pong, encoded into a buffer and read back
\* through load, decodes without error to a message with the same ack flag
\* and the same 8 payload bytes.
C1_RoundTrip ==
    (pc = "loaded" /\ wire) =>
        /\ res.ok
        /\ res.ping = ping
        /\ res.ping.ack = ping.ack
        /\ res.ping.payload = ping.payload

C1_Witness ==
    /\ pc = "loaded" /\ wire /\ old = <<>>
    /\ ping = pong(SHUTDOWN_PAYLOAD)
    /\ res = Ok(ping)

\* C2: load on a header whose stream identifier is non-zero fails with
\* InvalidStreamId for every flag byte and every payload length, never with
\* BadFrameSize.
C2_StreamIdFirst ==
    (pc = "loaded" /\ head.stream_id # 0) =>
        /\ ~res.ok
        /\ res.err = "InvalidStreamId"
        /\ res.err # "BadFrameSize"

C2_Witness ==
    /\ pc = "loaded" /\ head.stream_id = 5 /\ head.flag = 255
    /\ Len(bytes) = 7
    /\ res = Err("InvalidStreamId")

\* C3: load on a header with stream identifier zero and a payload whose
\* length is not 8 fails with BadFrameSize, for every flag byte, and returns
\* no message.
C3_SizeRejection ==
    (pc = "loaded" /\ head.stream_id = 0 /\ Len(bytes) # 8) =>
        /\ ~res.ok
        /\ res.err = "BadFrameSize"
        /\ res.ping = NoPing

C3_Witness ==
    /\ pc = "loaded" /\ head.stream_id = 0 /\ head.flag = 1
    /\ Len(bytes) = 9
    /\ res = Err("BadFrameSize")

\* C4: with stream identifier zero and an 8-byte payload, headers whose flag
\* bytes agree on bit 0 decode to the same message, and the decoded ack is
\* true exactly when bit 0 of the flag byte is 1.
C4_FlagIsolation ==
    (pc = "loaded" /\ head.stream_id = 0 /\ Len(bytes) = 8) =>
        /\ res.ok
        /\ res.ping.ack = (head.flag % 2 = 1)
        /\ \A f \in Flags :
              f % 2 = head.flag % 2 =>
                  load([head EXCEPT !.flag = f], bytes) = res

C4_Witness ==
    /\ pc = "loaded" /\ head.stream_id = 0 /\ Len(bytes) = 8
    /\ head.flag = 254
    /\ res.ok /\ ~res.ping.ack

\* C5: user_payload_id returns Some(b), b the 8th payload byte, exactly when
\* the first 7 payload bytes are 3b 7c db 7a 0b 87 16, and None otherwise:
\* Some(0) and Some(1) for the two user payloads, None for the shutdown
\* payload and for a prefix differing in any bit; the ack flag plays no part.
C5_Classification ==
    pc = "classified" =>
        /\ uid = IF Take(Subject.payload, 7) = UserPrefix
                 THEN Some(Subject.payload[8]) ELSE None
        /\ (Subject.payload = USER_PAYLOADS[1] => uid = Some(0))
        /\ (Subject.payload = USER_PAYLOADS[2] => uid = Some(1))
        /\ (Subject.payload = SHUTDOWN_PAYLOAD => uid = None)
        /\ (\E i \in 1..7 : Subject.payload[i] # UserPrefix[i]) => uid = None
        /\ user_payload_id([Subject EXCEPT !.ack = ~@]) = uid

C5_Witness ==
    /\ pc = "classified"
    /\ Subject.ack
    /\ Subject.payload = FlippedPayload(7, 0, 1)
    /\ uid = None

\* C6: whenever user_payload_id returns Some(id), the payload is one of the
\* two USER_PAYLOADS entries, so id is 0 or 1.
C6_OnlyUserPayloads ==
    (pc = "classified" /\ uid.some) =>
        /\ Subject.payload \in {USER_PAYLOADS[1], USER_PAYLOADS[2]}
        /\ uid.val \in {0, 1}

\* C7: for a buffer of any remaining capacity, after encode either the whole
\* frame was appended or the call failed and no byte of the frame is in the
\* buffer.
C7_NeverPartial ==
    pc = "encoded" =>
        \/ dst.ok /\ Len(dst.data) = Len(old) + FRAME_LEN
        \/ ~dst.ok /\ dst.data = old

\* C7 as amended: with at least HEADER_LEN + 8 bytes remaining encode appends
\* the whole frame; with less the call fails having appended fewer bytes than
\* a frame, and with at least HEADER_LEN remaining those are the header
\* without the payload.
C7_FullWhenRoom ==
    pc = "encoded" =>
        /\ Remaining >= FRAME_LEN =>
              dst.ok /\ Len(dst.data) = Len(old) + FRAME_LEN
        /\ Remaining < FRAME_LEN =>
              /\ ~dst.ok
              /\ Len(dst.data) < Len(old) + FRAME_LEN
              /\ Take(dst.data, Len(old)) = old
        /\ (Remaining >= HEADER_LEN /\ Remaining < FRAME_LEN) =>
              /\ Len(Frame) = HEADER_LEN
              /\ HeadParse(Frame).kind = KIND_PING

C7_Witness ==
    /\ pc = "encoded"
    /\ Remaining = FRAME_LEN - 1
    /\ ~dst.ok
    /\ Len(Frame) = HEADER_LEN

\* C8: encode leaves the bytes already in the buffer unchanged and, when it
\* returns, has appended exactly HEADER_LEN + 8 bytes: a PING header with
\* flag byte 1 for an ack and 0 otherwise, stream identifier zero and
\* declared length 8, then the 8 payload bytes in order.
C8_EncodeOutput ==
    pc = "encoded" =>
        /\ Len(dst.data) >= Len(old)
        /\ Take(dst.data, Len(old)) = old
        /\ dst.ok =>
              /\ Len(Frame) = FRAME_LEN
              /\ HeadParse(Take(Frame, HEADER_LEN)) =
                    HeadNew(KIND_PING, IF ping.ack THEN 1 ELSE 0, 0)
              /\ Frame[5] \in {0, 1}
              /\ DeclaredLen(Take(Frame, HEADER_LEN)) = 8
              /\ SubSeq(Frame, HEADER_LEN + 1, FRAME_LEN) = ping.payload

C8_Witness ==
    /\ pc = "encoded" /\ dst.ok
    /\ old = <<170, 187>>
    /\ ping = pong(<<1, 2, 3, 4, 5, 6, 7, 8>>)
    /\ dst.data = <<170, 187, 0, 0, 8, 6, 1, 0, 0, 0, 0, 1, 2, 3, 4, 5, 6, 7, 8>>

\* position of the flag byte in an encoded frame
FlagPos == 5

\* a buffer with nothing in it and room for any frame
EmptyBuf == [data |-> <<>>, cap |-> 2 * FRAME_LEN, ok |-> TRUE]

\* C9: encoding the same message again into an empty buffer gives the same
\* bytes, and the encodings of new(p) and pong(p) have the same length and
\* agree at every position except the flag byte.
C9_Determinism ==
    (pc = "encoded" /\ dst.ok) =>
        LET again == encode(ping, EmptyBuf).data
            probe == encode(new(ping.payload), EmptyBuf).data
            resp  == encode(pong(ping.payload), EmptyBuf).data
        IN  /\ again = Frame
            /\ Frame \in {probe, resp}
            /\ Len(probe) = Len(resp)
            /\ \A i \in 1..Len(probe) : i # FlagPos => probe[i] = resp[i]
            /\ probe[FlagPos] # resp[FlagPos]

C9_Witness ==
    /\ pc = "encoded" /\ dst.ok
    /\ old = <<>>
    /\ ping = new(USER_PAYLOADS[1])
    /\ encode(pong(ping.payload), EmptyBuf).data[FlagPos] # dst.data[FlagPos]

\* C10: load returns a message exactly when the stream identifier is zero
\* and the raw payload has 8 bytes; the message's payload is then the 8
\* input bytes in order, and the only errors are InvalidStreamId and
\* BadFrameSize.
C10_AcceptsExactly ==
    pc = "loaded" =>
        /\ res.ok <=> (head.stream_id = 0 /\ Len(bytes) = 8)
        /\ res.ok => res.ping.payload = bytes /\ res.err = "none"
        /\ ~res.ok => /\ res.err \in {"InvalidStreamId", "BadFrameSize"}
                      /\ res.ping = NoPing

C10_Witness ==
    /\ pc = "loaded" /\ ~wire
    /\ head = HeadNew(KIND_PING, 1, 0)
    /\ bytes = USER_PAYLOADS[2]
    /\ res = Ok(pong(USER_PAYLOADS[2]))
    /\ user_payload_id(res.ping) = Some(1)

====
